---- MODULE Spec2Model ----
(* Model of app/main.py of the Bulldoggy reminders app: the application      *)
(* composer (route table, exception handlers, cached OpenAPI schema and the  *)
(* three top-level routes), the requests it serves and the redirects a       *)
(* browser follows.  URL paths are sequences of characters so that           *)
(* str.startswith is computed, not assumed.                                  *)
EXTENDS Integers, Sequences, FiniteSets, TLC

VARIABLES pc, req, exc, resp, cookie, openapi_schema, builds

vars == <<pc, req, exc, resp, cookie, openapi_schema, builds>>

\* ---------------------------------------------------------------------------
\* Bounds
\* ---------------------------------------------------------------------------

\* Requests that can be in flight at once.
NumClients == 2

\* Redirects a browser follows before it gives up on one navigation.
MaxHops == 2

Clients == 1..NumClients

\* ---------------------------------------------------------------------------
\* Status codes
\* ---------------------------------------------------------------------------

\* status_code=302 passed to RedirectResponse by read_root and by the
\* unauthorized handler.
Found == 302

\* RedirectResponse('/not-found') passes no status_code: the response class
\* keeps its default.
DefaultRedirectStatus == 307

\* FileResponse and TemplateResponse are built without a status_code.
DefaultStatus == 200

NotFoundStatus == 404

MethodNotAllowedStatus == 405

\* ---------------------------------------------------------------------------
\* URLs, as sequences of characters
\* ---------------------------------------------------------------------------

RootPath == <<"/">>

RemindersPath == <<"/", "r", "e", "m", "i", "n", "d", "e", "r", "s">>

LoginPath == <<"/", "l", "o", "g", "i", "n">>

LoginUnauthorizedUrl ==
  <<"/", "l", "o", "g", "i", "n", "?", "u", "n", "a", "u", "t", "h", "o", "r",
    "i", "z", "e", "d", "=", "T", "r", "u", "e">>

NotFoundPath == <<"/", "n", "o", "t", "-", "f", "o", "u", "n", "d">>

FaviconPath == <<"/", "f", "a", "v", "i", "c", "o", "n", ".", "i", "c", "o">>

OpenapiPath == <<"/", "o", "p", "e", "n", "a", "p", "i", ".", "j", "s", "o", "n">>

StaticPrefix == <<"/", "s", "t", "a", "t", "i", "c">>

ApiPrefix == <<"/", "a", "p", "i", "/">>

ApiRemindersPath == ApiPrefix \o <<"r", "e", "m", "i", "n", "d", "e", "r", "s">>

\* Request paths no route is registered for.
ApiBarePath == <<"/", "a", "p", "i">>

ApiMissingPath == ApiPrefix \o <<"x">>

ApixPath == <<"/", "a", "p", "i", "x", "/", "1">>

NopePath == <<"/", "n", "o", "p", "e">>

\* A registered path with a trailing slash added.
LoginSlashPath == LoginPath \o <<"/">>

StaticFilePath == StaticPrefix \o <<"/", "x">>

Methods == {"GET", "POST"}

Paths ==
  { RootPath, RemindersPath, LoginPath, NotFoundPath, FaviconPath, OpenapiPath,
    ApiRemindersPath, ApiBarePath, ApiPrefix, ApiMissingPath, ApixPath,
    NopePath, LoginSlashPath, StaticFilePath }

\* str.startswith
StartsWith(s, prefix) ==
  /\ Len(s) >= Len(prefix)
  /\ SubSeq(s, 1, Len(prefix)) = prefix

\* The path of a URL: everything before the first "?".
RECURSIVE UrlPath(_)
UrlPath(url) ==
  IF url = <<>> \/ Head(url) = "?"
  THEN <<>>
  ELSE <<Head(url)>> \o UrlPath(Tail(url))

\* ---------------------------------------------------------------------------
\* Values
\* ---------------------------------------------------------------------------

\* Optional values: None is the empty sequence, a present value x is <<x>>.
None == <<>>

NoBody == [empty |-> TRUE]

NoRequest == [method |-> "", path |-> <<>>, via |-> "", hops |-> 0]

NoExc == [kind |-> "", status_code |-> 0, detail |-> ""]

NoResponse ==
  [by |-> "", type |-> "", status_code |-> 0, location |-> <<>>,
   body |-> NoBody, cached |-> FALSE]

HTTPException(status, detail) ==
  [kind |-> "HTTPException", status_code |-> status, detail |-> detail]

UnauthorizedPageException ==
  [kind |-> "UnauthorizedPageException", status_code |-> 0, detail |-> ""]

RequestValidationError ==
  [kind |-> "RequestValidationError", status_code |-> 0, detail |-> "invalid"]

ServerError == [kind |-> "Exception", status_code |-> 0, detail |-> "boom"]

\* What a handler of one of the three routers can raise.
RouterExceptions ==
  { UnauthorizedPageException,
    HTTPException(NotFoundStatus, "Not Found"),
    HTTPException(NotFoundStatus, "List not found"),
    HTTPException(401, "Unauthorized"),
    RequestValidationError,
    ServerError }

\* Response constructors.  "by" records the code that built the response.
RedirectResponse(url, status) ==
  [by |-> "", type |-> "redirect", status_code |-> status, location |-> url,
   body |-> NoBody, cached |-> FALSE]

JSONResponse(content, status) ==
  [by |-> "", type |-> "json", status_code |-> status, location |-> <<>>,
   body |-> content, cached |-> FALSE]

FileResponse(file) ==
  [by |-> "", type |-> "file", status_code |-> DefaultStatus, location |-> <<>>,
   body |-> [file |-> file], cached |-> FALSE]

TemplateResponse(name) ==
  [by |-> "", type |-> "html", status_code |-> DefaultStatus, location |-> <<>>,
   body |-> [template |-> name], cached |-> FALSE]

PlainTextResponse(text, status) ==
  [by |-> "", type |-> "text", status_code |-> status, location |-> <<>>,
   body |-> [text |-> text], cached |-> FALSE]

By(name, response) == [response EXCEPT !.by = name]

\* ---------------------------------------------------------------------------
\* Route table
\* ---------------------------------------------------------------------------

Route(path, methods, endpoint, include_in_schema) ==
  [kind |-> "route", path |-> path, methods |-> methods, endpoint |-> endpoint,
   include_in_schema |-> include_in_schema]

Mount(path, endpoint) ==
  [kind |-> "mount", path |-> path, methods |-> Methods, endpoint |-> endpoint,
   include_in_schema |-> FALSE]

\* app = FastAPI() registers the schema route itself, outside the schema.
builtin_routes == << Route(OpenapiPath, {"GET"}, "openapi", FALSE) >>

\* Routes of the api, login and reminders routers.
router_routes ==
  << Route(ApiRemindersPath, {"GET", "POST"}, "router", TRUE),
     Route(LoginPath, {"GET", "POST"}, "router", TRUE),
     Route(RemindersPath, {"GET"}, "router", TRUE) >>

static_mount == << Mount(StaticPrefix, "static") >>

\* The favicon route declared without include_in_schema=False.
app_routes_favicon_in_schema ==
  << Route(RootPath, {"GET"}, "read_root", TRUE),
     Route(FaviconPath, {"GET"}, "get_favicon", TRUE),
     Route(NotFoundPath, {"GET"}, "get_not_found", TRUE) >>

\* The three routes main.py declares with @app.get.
app_routes ==
  << Route(RootPath, {"GET"}, "read_root", TRUE),
     Route(FaviconPath, {"GET"}, "get_favicon", FALSE),
     Route(NotFoundPath, {"GET"}, "get_not_found", TRUE) >>

routes == builtin_routes \o router_routes \o static_mount \o app_routes

\* A route matches a path whatever the method; a mount matches its subtree.
PathMatches(route, path) ==
  IF route.kind = "mount"
  THEN StartsWith(path, route.path \o <<"/">>)
  ELSE path = route.path

FullMatches(method, path) ==
  { i \in DOMAIN routes :
      PathMatches(routes[i], path) /\ method \in routes[i].methods }

PartialMatches(method, path) ==
  { i \in DOMAIN routes :
      PathMatches(routes[i], path) /\ method \notin routes[i].methods }

Min(S) == CHOOSE i \in S : \A j \in S : i <= j

\* The path with its trailing slash removed, or added when it has none.
ToggleSlash(path) ==
  IF path[Len(path)] = "/"
  THEN SubSeq(path, 1, Len(path) - 1)
  ELSE path \o <<"/">>

\* The router's dispatch: the first route that matches path and method serves
\* the request; a route that matches the path alone answers 405; a path that
\* matches once its trailing slash is toggled is redirected there; anything
\* else is a 404.  The result is the endpoint to run, a response or an error.
Dispatch(method, path) ==
  IF FullMatches(method, path) # {}
  THEN [endpoint |-> routes[Min(FullMatches(method, path))].endpoint,
        exc |-> NoExc, response |-> NoResponse]
  ELSE IF PartialMatches(method, path) # {}
  THEN [endpoint |-> "",
        exc |-> HTTPException(MethodNotAllowedStatus, "Method Not Allowed"),
        response |-> NoResponse]
  ELSE IF /\ path # RootPath
          /\ \E i \in DOMAIN routes : PathMatches(routes[i], ToggleSlash(path))
  THEN [endpoint |-> "", exc |-> NoExc,
        response |-> By("router",
                        RedirectResponse(ToggleSlash(path), DefaultRedirectStatus))]
  ELSE [endpoint |-> "",
        exc |-> HTTPException(NotFoundStatus, "Not Found"),
        response |-> NoResponse]

\* ---------------------------------------------------------------------------
\* Exception handlers
\* ---------------------------------------------------------------------------

\* The unauthorized handler with the query string left off the target.
unauthorized_exception_handler_no_query(request, e) ==
  RedirectResponse(LoginPath, Found)

unauthorized_exception_handler(request, e) ==
  RedirectResponse(LoginUnauthorizedUrl, Found)

\* The not-found handler answering API paths with a fixed message instead of
\* the detail of the error.
page_not_found_exception_handler_fixed_detail(request, e) ==
  IF StartsWith(request.path, ApiPrefix)
  THEN JSONResponse([detail |-> "Not Found"], e.status_code)
  ELSE RedirectResponse(NotFoundPath, DefaultRedirectStatus)

page_not_found_exception_handler(request, e) ==
  IF StartsWith(request.path, ApiPrefix)
  THEN JSONResponse([detail |-> e.detail], e.status_code)
  ELSE RedirectResponse(NotFoundPath, DefaultRedirectStatus)

\* The not-found handler registered for every HTTPException instead of for
\* status 404.
lookup_handler_any_http(e) ==
  IF e.kind = "HTTPException"
  THEN "page_not_found_exception_handler"
  ELSE IF e.kind = "UnauthorizedPageException"
  THEN "unauthorized_exception_handler"
  ELSE IF e.kind = "RequestValidationError"
  THEN "request_validation_exception_handler"
  ELSE "server_error_middleware"

\* The handler the exception middleware picks: a handler registered for the
\* status code of an HTTPException first, then the handler registered for the
\* exception's class, then the framework's own.
lookup_handler(e) ==
  IF e.kind = "HTTPException" /\ e.status_code = NotFoundStatus
  THEN "page_not_found_exception_handler"
  ELSE IF e.kind = "UnauthorizedPageException"
  THEN "unauthorized_exception_handler"
  ELSE IF e.kind = "HTTPException"
  THEN "http_exception_handler"
  ELSE IF e.kind = "RequestValidationError"
  THEN "request_validation_exception_handler"
  ELSE "server_error_middleware"

handle_exception(request, e) ==
  LET h == lookup_handler(e) IN
  By(h,
     CASE h = "page_not_found_exception_handler" ->
            page_not_found_exception_handler(request, e)
       [] h = "unauthorized_exception_handler" ->
            unauthorized_exception_handler(request, e)
       [] h = "http_exception_handler" ->
            JSONResponse([detail |-> e.detail], e.status_code)
       [] h = "request_validation_exception_handler" ->
            JSONResponse([detail |-> e.detail], 422)
       [] OTHER -> PlainTextResponse("Internal Server Error", 500))

\* ---------------------------------------------------------------------------
\* OpenAPI customization
\* ---------------------------------------------------------------------------

Title == "Bulldoggy: The Reminders App"

Version == "1.0.0"

Tags == << "API", "Pages", "Authentication", "HTMX Partials" >>

LogoUrl == "static/img/logos/bulldoggy-500px.png"

\* get_openapi: a fresh document (id tells one built object from another)
\* listing the routes that are included in the schema.
get_openapi(id, title, version, rs, tags) ==
  [id |-> id,
   info |-> [title |-> title, version |-> version],
   paths |-> { rs[i].path : i \in { j \in DOMAIN rs : rs[j].include_in_schema } },
   tags |-> tags]

\* openapi_schema["info"]["x-logo"] = {"url": ...}
SetLogo(schema, url) ==
  [schema EXCEPT !.info =
     [title |-> schema.info.title, version |-> schema.info.version,
      x_logo |-> [url |-> url]]]

Truthy(optional) == optional # None

\* custom_openapi without its early return: the document is built and stored
\* again on every call.
custom_openapi_no_early_return(cache, n) ==
  LET schema == SetLogo(get_openapi(n + 1, Title, Version, routes, Tags), LogoUrl)
  IN [ret |-> schema, cache |-> <<schema>>, built |-> TRUE]

\* custom_openapi that never stores the document it built.
custom_openapi_no_store(cache, n) ==
  IF Truthy(cache)
  THEN [ret |-> cache[1], cache |-> cache, built |-> FALSE]
  ELSE LET schema == SetLogo(get_openapi(n + 1, Title, Version, routes, Tags),
                             LogoUrl)
       IN [ret |-> schema, cache |-> cache, built |-> TRUE]

\* custom_openapi that caches and returns the document without the logo.
custom_openapi_no_logo(cache, n) ==
  IF Truthy(cache)
  THEN [ret |-> cache[1], cache |-> cache, built |-> FALSE]
  ELSE LET schema == get_openapi(n + 1, Title, Version, routes, Tags)
       IN [ret |-> schema, cache |-> <<schema>>, built |-> TRUE]

\* custom_openapi, from the cache app.openapi_schema and the number of
\* documents built so far: the value returned, the cache afterwards and
\* whether a document was built.
custom_openapi(cache, n) ==
  IF Truthy(cache)
  THEN [ret |-> cache[1], cache |-> cache, built |-> FALSE]
  ELSE LET schema == SetLogo(get_openapi(n + 1, Title, Version, routes, Tags),
                             LogoUrl)
       IN [ret |-> schema, cache |-> <<schema>>, built |-> TRUE]

\* ---------------------------------------------------------------------------
\* Routes of main.py
\* ---------------------------------------------------------------------------

\* read_root with the two targets swapped.
read_root_swapped(ck) ==
  LET path == IF Truthy(ck) THEN LoginPath ELSE RemindersPath
  IN RedirectResponse(path, Found)

read_root(ck) ==
  LET path == IF Truthy(ck) THEN RemindersPath ELSE LoginPath
  IN RedirectResponse(path, Found)

get_favicon == FileResponse("static/img/favicon.ico")

get_not_found(request) == TemplateResponse("pages/not-found.html")

\* ---------------------------------------------------------------------------
\* The browser
\* ---------------------------------------------------------------------------

\* The method of the request that follows a redirect: 301 and 302 turn POST
\* into GET, 303 turns everything but GET and HEAD into GET, 307 and 308 keep
\* the method.
RedirectMethod(status, method) ==
  IF status \in {301, 302} /\ method = "POST" THEN "GET"
  ELSE IF status = 303 /\ method \notin {"GET", "HEAD"} THEN "GET"
  ELSE method

\* ---------------------------------------------------------------------------
\* State machine: each client has at most one request in flight; a request
\* moves at its suspension points.
\* ---------------------------------------------------------------------------

Init ==
  /\ pc = [c \in Clients |-> "idle"]
  /\ req = [c \in Clients |-> NoRequest]
  /\ exc = [c \in Clients |-> NoExc]
  /\ resp = [c \in Clients |-> NoResponse]
  /\ cookie = [c \in Clients |-> None]
  /\ openapi_schema = None
  /\ builds = 0

Respond(c, response) ==
  /\ resp' = [resp EXCEPT ![c] = response]
  /\ pc' = [pc EXCEPT ![c] = "responded"]

Raise(c, e) ==
  /\ exc' = [exc EXCEPT ![c] = e]
  /\ pc' = [pc EXCEPT ![c] = "raised"]

\* A client sends a request.
Receive(c, method, path) ==
  /\ pc[c] = "idle"
  /\ req' = [req EXCEPT ![c] =
               [method |-> method, path |-> path, via |-> "direct", hops |-> 0]]
  /\ pc' = [pc EXCEPT ![c] = "routing"]
  /\ UNCHANGED <<exc, resp, cookie, openapi_schema, builds>>

\* The router picks the endpoint, or answers itself.
RouteRequest(c) ==
  /\ pc[c] = "routing"
  /\ LET d == Dispatch(req[c].method, req[c].path) IN
       IF d.endpoint # ""
       THEN /\ pc' = [pc EXCEPT ![c] =
                        IF d.endpoint = "read_root" THEN "depends" ELSE d.endpoint]
            /\ UNCHANGED <<exc, resp>>
       ELSE IF d.exc # NoExc
       THEN Raise(c, d.exc) /\ UNCHANGED resp
       ELSE Respond(c, d.response) /\ UNCHANGED exc
  /\ UNCHANGED <<req, cookie, openapi_schema, builds>>

\* Depends(get_auth_cookie): the resolver yields a cookie or nothing.
ResolveAuthCookie(c, ck) ==
  /\ pc[c] = "depends"
  /\ cookie' = [cookie EXCEPT ![c] = ck]
  /\ pc' = [pc EXCEPT ![c] = "read_root"]
  /\ UNCHANGED <<req, exc, resp, openapi_schema, builds>>

ReadRoot(c) ==
  /\ pc[c] = "read_root"
  /\ Respond(c, By("read_root", read_root(cookie[c])))
  /\ UNCHANGED <<req, exc, cookie, openapi_schema, builds>>

GetFavicon(c) ==
  /\ pc[c] = "get_favicon"
  /\ Respond(c, By("get_favicon", get_favicon))
  /\ UNCHANGED <<req, exc, cookie, openapi_schema, builds>>

GetNotFound(c) ==
  /\ pc[c] = "get_not_found"
  /\ Respond(c, By("get_not_found", get_not_found(req[c])))
  /\ UNCHANGED <<req, exc, cookie, openapi_schema, builds>>

\* The schema route: JSONResponse(app.openapi()), with app.openapi being
\* custom_openapi, which has no suspension point.
GetOpenapi(c) ==
  /\ pc[c] = "openapi"
  /\ LET r == custom_openapi(openapi_schema, builds) IN
       /\ openapi_schema' = r.cache
       /\ builds' = builds + (IF r.built THEN 1 ELSE 0)
       /\ Respond(c, By("openapi",
                        [JSONResponse(r.ret, DefaultStatus)
                           EXCEPT !.cached = ~r.built]))
  /\ UNCHANGED <<req, exc, cookie>>

\* A handler of the api, login or reminders router answers or raises.
RouterEndpoint(c, e) ==
  /\ pc[c] = "router"
  /\ IF e = NoExc
     THEN Respond(c, By("router", TemplateResponse("router"))) /\ UNCHANGED exc
     ELSE Raise(c, e) /\ UNCHANGED resp
  /\ UNCHANGED <<req, cookie, openapi_schema, builds>>

\* The static mount serves GET for files that exist.
StaticFiles(c, found) ==
  /\ pc[c] = "static"
  /\ IF req[c].method # "GET"
     THEN Raise(c, HTTPException(MethodNotAllowedStatus, "Method Not Allowed"))
          /\ UNCHANGED resp
     ELSE IF found
     THEN Respond(c, By("static", FileResponse("static/x"))) /\ UNCHANGED exc
     ELSE Raise(c, HTTPException(NotFoundStatus, "Not Found")) /\ UNCHANGED resp
  /\ UNCHANGED <<req, cookie, openapi_schema, builds>>

\* The exception middleware turns the raised exception into a response.
HandleException(c) ==
  /\ pc[c] = "raised"
  /\ Respond(c, handle_exception(req[c], exc[c]))
  /\ UNCHANGED <<req, exc, cookie, openapi_schema, builds>>

\* The browser follows a redirect.
Follow(c) ==
  /\ pc[c] = "responded"
  /\ resp[c].type = "redirect"
  /\ req[c].hops < MaxHops
  /\ req' = [req EXCEPT ![c] =
               [method |-> RedirectMethod(resp[c].status_code, req[c].method),
                path |-> UrlPath(resp[c].location),
                via |-> resp[c].by,
                hops |-> req[c].hops + 1]]
  /\ pc' = [pc EXCEPT ![c] = "routing"]
  /\ exc' = [exc EXCEPT ![c] = NoExc]
  /\ resp' = [resp EXCEPT ![c] = NoResponse]
  /\ cookie' = [cookie EXCEPT ![c] = None]
  /\ UNCHANGED <<openapi_schema, builds>>

\* The client is done with the response.
Done(c) ==
  /\ pc[c] = "responded"
  /\ pc' = [pc EXCEPT ![c] = "idle"]
  /\ req' = [req EXCEPT ![c] = NoRequest]
  /\ exc' = [exc EXCEPT ![c] = NoExc]
  /\ resp' = [resp EXCEPT ![c] = NoResponse]
  /\ cookie' = [cookie EXCEPT ![c] = None]
  /\ UNCHANGED <<openapi_schema, builds>>

Cookies == { None, <<"session">> }

\* One client, every method and path.
Next ==
  \E c \in {1} :
    \/ \E m \in Methods, p \in Paths : Receive(c, m, p)
    \/ RouteRequest(c)
    \/ \E ck \in Cookies : ResolveAuthCookie(c, ck)
    \/ ReadRoot(c)
    \/ GetFavicon(c)
    \/ GetNotFound(c)
    \/ GetOpenapi(c)
    \/ \E e \in {NoExc} \cup RouterExceptions : RouterEndpoint(c, e)
    \/ \E found \in BOOLEAN : StaticFiles(c, found)
    \/ HandleException(c)
    \/ Follow(c)
    \/ Done(c)

Spec == Init /\ [][Next]_vars

\* Paths of the requests that run concurrently: the schema route, the three
\* routes of main.py, a router's page and two paths without a route.
ConcPaths ==
  { RootPath, RemindersPath, FaviconPath, OpenapiPath, ApiMissingPath, NopePath }

ConcOutcomes == { NoExc, UnauthorizedPageException }

\* Every client, requests in flight at once.
ConcNext ==
  \E c \in Clients :
    \/ \E p \in ConcPaths : Receive(c, "GET", p)
    \/ RouteRequest(c)
    \/ \E ck \in Cookies : ResolveAuthCookie(c, ck)
    \/ ReadRoot(c)
    \/ GetFavicon(c)
    \/ GetNotFound(c)
    \/ GetOpenapi(c)
    \/ \E e \in ConcOutcomes : RouterEndpoint(c, e)
    \/ HandleException(c)
    \/ Follow(c)
    \/ Done(c)

ConcSpec == Init /\ [][ConcNext]_vars

\* ---------------------------------------------------------------------------
\* Properties
\* ---------------------------------------------------------------------------

Responded(c) == pc[c] = "responded"

IsNotFoundError(e) == e.kind = "HTTPException" /\ e.status_code = 404

\* C1: every answer to GET / is a 302 redirect, to /reminders when the
\* auth-cookie resolver yielded a cookie and to /login when it yielded nothing.
RootRedirects ==
  \A c \in Clients :
    (Responded(c) /\ req[c].method = "GET" /\ req[c].path = <<"/">>) =>
      /\ resp[c].by = "read_root"
      /\ resp[c].type = "redirect"
      /\ resp[c].status_code = 302
      /\ resp[c].location =
           IF cookie[c] # None THEN RemindersPath ELSE LoginPath

RootRedirectsWitness ==
  \E c \in Clients :
    /\ Responded(c) /\ req[c].method = "GET" /\ req[c].path = <<"/">>
    /\ cookie[c] # None
    /\ resp[c].location = RemindersPath

\* C2: a 404 on a path that does not start with /api/ is answered by a
\* redirect with status 302 to /not-found.
NotFoundRedirectIs302 ==
  \A c \in Clients :
    (Responded(c) /\ IsNotFoundError(exc[c])
       /\ ~StartsWith(req[c].path, ApiPrefix)) =>
      /\ resp[c].type = "redirect"
      /\ resp[c].status_code = 302
      /\ resp[c].location = NotFoundPath

\* C3: a 404 on a path that starts with /api/ is answered by JSON with status
\* 404 whose body is {"detail": d}, d being the detail of the error; never by
\* a redirect.
ApiNotFoundIsJson ==
  \A c \in Clients :
    (Responded(c) /\ IsNotFoundError(exc[c])
       /\ StartsWith(req[c].path, ApiPrefix)) =>
      /\ resp[c].type = "json"
      /\ resp[c].status_code = 404
      /\ resp[c].body = [detail |-> exc[c].detail]
      /\ resp[c].location = <<>>

ApiNotFoundIsJsonWitness ==
  \E c \in Clients :
    /\ Responded(c)
    /\ req[c].path = ApiRemindersPath
    /\ exc[c] = HTTPException(404, "List not found")
    /\ resp[c].body = [detail |-> "List not found"]

\* C4: the unauthorized-page signal is answered by a 302 redirect to exactly
\* /login?unauthorized=True, whatever the path, the method and the cookie.
UnauthorizedRedirects ==
  \A c \in Clients :
    (Responded(c) /\ exc[c].kind = "UnauthorizedPageException") =>
      /\ resp[c].type = "redirect"
      /\ resp[c].status_code = 302
      /\ resp[c].location = LoginUnauthorizedUrl

UnauthorizedRedirectsWitness ==
  \E c \in Clients :
    /\ Responded(c)
    /\ exc[c].kind = "UnauthorizedPageException"
    /\ StartsWith(req[c].path, ApiPrefix)
    /\ req[c].method = "POST"
    /\ resp[c].location = LoginUnauthorizedUrl

\* C5: once the schema is computed it stays the same object and is not built
\* again, whatever requests follow, and every schema response carries the
\* object the first request built.
SchemaComputedOnce ==
  [][ /\ openapi_schema # None =>
           (openapi_schema' = openapi_schema /\ builds' = builds)
      /\ \A c \in Clients :
           (pc'[c] = "responded" /\ resp'[c].by = "openapi") =>
             /\ openapi_schema' # None
             /\ resp'[c].body = openapi_schema'[1]
             /\ resp'[c].body.id = 1 ]_vars

SchemaComputedOnceWitness ==
  \E c, d \in Clients :
    /\ Responded(c) /\ resp[c].by = "openapi" /\ resp[c].cached
    /\ Responded(d) /\ resp[d].by = "page_not_found_exception_handler"

\* C6: every schema document returned, built or cached, has the title, the
\* version, the four tags and the logo extension; the cache never holds a
\* document without the logo.
SchemaMetadata ==
  LET Complete(schema) ==
        /\ schema.info.title = "Bulldoggy: The Reminders App"
        /\ schema.info.version = "1.0.0"
        /\ schema.tags = << "API", "Pages", "Authentication", "HTMX Partials" >>
        /\ "x_logo" \in DOMAIN schema.info
  IN /\ openapi_schema # None => Complete(openapi_schema[1])
     /\ \A c \in Clients :
          (Responded(c) /\ resp[c].by = "openapi") => Complete(resp[c].body)

SchemaMetadataWitness ==
  \E c \in Clients :
    /\ Responded(c) /\ resp[c].by = "openapi" /\ resp[c].cached
    /\ "x_logo" \in DOMAIN resp[c].body.info

\* C7: GET /favicon.ico is answered with status 200 and the favicon file, and
\* the schema lists / and /not-found but never /favicon.ico.
FaviconServedNotDocumented ==
  /\ \A c \in Clients :
       (Responded(c) /\ req[c].method = "GET" /\ req[c].path = FaviconPath) =>
         /\ resp[c].status_code = 200
         /\ resp[c].type = "file"
         /\ resp[c].body = [file |-> "static/img/favicon.ico"]
  /\ openapi_schema # None =>
       /\ FaviconPath \notin openapi_schema[1].paths
       /\ RootPath \in openapi_schema[1].paths
       /\ NotFoundPath \in openapi_schema[1].paths

FaviconServedNotDocumentedWitness ==
  /\ openapi_schema # None
  /\ \E c \in Clients :
       Responded(c) /\ req[c].path = FaviconPath /\ resp[c].type = "file"

\* C8: the request a browser sends after the redirect of the not-found
\* handler is served by the not-found page route with status 200 and HTML.
NotFoundRedirectLands ==
  \A c \in Clients :
    (Responded(c) /\ req[c].via = "page_not_found_exception_handler") =>
      /\ resp[c].by = "get_not_found"
      /\ resp[c].status_code = 200
      /\ resp[c].type = "html"

\* C9: an error that is neither the unauthorized-page signal nor an HTTP 404
\* is answered by neither handler of main.py: no redirect to
\* /login?unauthorized=True, none to /not-found, no body of the not-found
\* handler.
OtherErrorsNotHandled ==
  \A c \in Clients :
    (Responded(c) /\ exc[c] # NoExc
       /\ exc[c].kind # "UnauthorizedPageException"
       /\ ~IsNotFoundError(exc[c])) =>
      /\ resp[c].by \notin { "unauthorized_exception_handler",
                             "page_not_found_exception_handler" }
      /\ ~(resp[c].type = "redirect"
             /\ resp[c].location \in { LoginUnauthorizedUrl, NotFoundPath })

OtherErrorsNotHandledWitness ==
  \E c \in Clients :
    /\ Responded(c)
    /\ exc[c] = HTTPException(401, "Unauthorized")
    /\ resp[c].by = "http_exception_handler"
    /\ resp[c].status_code = 401

\* C10: with requests interleaved at their suspension points, the schema is
\* built at most once, concurrent schema responses carry the same object, a
\* step of one request leaves the state of the other requests alone, and only
\* the schema route writes the shared cache.
NoSharedWrites ==
  [][ /\ builds' <= 1
      /\ \A c, d \in Clients :
           (pc'[c] = "responded" /\ resp'[c].by = "openapi"
              /\ pc'[d] = "responded" /\ resp'[d].by = "openapi") =>
             resp'[c].body = resp'[d].body
      /\ \A c \in Clients :
           pc'[c] # pc[c] =>
             /\ \A d \in Clients \ {c} :
                  /\ pc'[d] = pc[d] /\ req'[d] = req[d] /\ exc'[d] = exc[d]
                  /\ resp'[d] = resp[d] /\ cookie'[d] = cookie[d]
             /\ pc[c] # "openapi" =>
                  (openapi_schema' = openapi_schema /\ builds' = builds) ]_vars

NoSharedWritesWitness ==
  \E c, d \in Clients :
    /\ c # d
    /\ Responded(c) /\ resp[c].by = "openapi" /\ ~resp[c].cached
    /\ Responded(d) /\ resp[d].by = "openapi" /\ resp[d].cached
    /\ resp[c].body = resp[d].body

====
